---- MODULE Spec2Model ----
(***************************************************************************)
(* A model of watcher.py: the per-source version extraction strategies     *)
(* (extract_latest_year, hash_page, extract_kaufman_title), their dispatch *)
(* (get_version_for_source), the notifier (send_email) and the run         *)
(* orchestrator (run).                                                     *)
(*                                                                         *)
(* A Python str is a sequence of characters; a character is a one-element  *)
(* TLA+ string.  Three kinds of text are kept atomic (one element of the   *)
(* sequence) because no code path looks inside them: an HTML tag of a page *)
(* ("<h1>", "</b>"), a literal of an f-string ("[ERROR] ", "  ("), and a   *)
(* descriptor field (id, name, url).  "U+0664" stands for the single       *)
(* character ARABIC-INDIC DIGIT FOUR, a Unicode decimal digit (class Nd).  *)
(***************************************************************************)
EXTENDS Integers, Sequences, FiniteSets, TLC

\* Largest registry (number of source descriptors) of a run.
MaxSources == 3
\* Longest page served by the kaufman_title source in a full run.
MaxPageLen == 2
\* Longest page given to the latest_year strategy on its own.
MaxYearLen == 6
\* Longest page given to the kaufman_title strategy on its own.
MaxTitleLen == 5

\* All sequences over S of length at most n.
RECURSIVE SeqsUpTo(_, _)
SeqsUpTo(S, n) ==
    IF n = 0 THEN {<<>>}
    ELSE LET shorter == SeqsUpTo(S, n - 1)
         IN  shorter \cup {Append(s, c) : s \in {t \in shorter : Len(t) = n - 1}, c \in S}

----------------------------------------------------------------------------
(* Python values *)

\* Optional[str]: None, or a str.
None == [some |-> FALSE, val |-> <<>>]
Some(s) == [some |-> TRUE, val |-> s]
\* Truthiness as `x or y` and `if not x` test it: None and "" are falsy.
Truthy(o) == o.some /\ o.val # <<>>

AsciiDigits == {"0", "1", "2", "3", "4", "5", "6", "7", "8", "9"}
UnicodeDigits == {"U+0664"}
\* What the regex class \d matches in a str pattern: any Unicode decimal digit.
IsDigit(c) == c \in AsciiDigits \cup UnicodeDigits
\* The value int() gives a decimal digit character.
DigitValue(c) ==
    CASE c = "0" -> 0 [] c = "1" -> 1 [] c = "2" -> 2 [] c = "3" -> 3
      [] c = "4" -> 4 [] c = "5" -> 5 [] c = "6" -> 6 [] c = "7" -> 7
      [] c = "8" -> 8 [] c = "9" -> 9 [] c = "U+0664" -> 4
DigitChar(d) ==
    CASE d = 0 -> "0" [] d = 1 -> "1" [] d = 2 -> "2" [] d = 3 -> "3"
      [] d = 4 -> "4" [] d = 5 -> "5" [] d = 6 -> "6" [] d = 7 -> "7"
      [] d = 8 -> "8" [] d = 9 -> "9"

\* int(s) for a string of decimal digits.
RECURSIVE int(_)
int(s) ==
    IF s = <<>> THEN 0
    ELSE 10 * int(SubSeq(s, 1, Len(s) - 1)) + DigitValue(s[Len(s)])

\* str(n) for a natural number.
RECURSIVE str(_)
str(n) ==
    IF n < 10 THEN <<DigitChar(n)>>
    ELSE Append(str(n \div 10), DigitChar(n % 10))

\* max() of a non-empty set of integers.
max(S) == CHOOSE m \in S : \A x \in S : x <= m

\* sep.join(parts) for a sequence of strings.
RECURSIVE join(_, _)
join(sep, parts) ==
    IF parts = <<>> THEN <<>>
    ELSE IF Len(parts) = 1 THEN parts[1]
    ELSE parts[1] \o sep \o join(sep, Tail(parts))

Whitespace == {" ", "\n"}

\* s.strip(): leading and trailing whitespace removed.
RECURSIVE lstrip(_)
lstrip(s) ==
    IF s # <<>> /\ Head(s) \in Whitespace THEN lstrip(Tail(s)) ELSE s
RECURSIVE rstrip(_)
rstrip(s) ==
    IF s # <<>> /\ s[Len(s)] \in Whitespace
    THEN rstrip(SubSeq(s, 1, Len(s) - 1)) ELSE s
strip(s) == rstrip(lstrip(s))

\* s.split(): the maximal runs of non-whitespace characters, in order.
RECURSIVE splitFrom(_, _, _)
splitFrom(s, i, word) ==
    IF i > Len(s) THEN (IF word = <<>> THEN <<>> ELSE <<word>>)
    ELSE IF s[i] \in Whitespace
         THEN (IF word = <<>> THEN <<>> ELSE <<word>>) \o splitFrom(s, i + 1, <<>>)
         ELSE splitFrom(s, i + 1, Append(word, s[i]))
split(s) == splitFrom(s, 1, <<>>)

----------------------------------------------------------------------------
(* extract_latest_year *)

\* re.match of 20[0-4]\d at position i of html.
MatchesAt(html, i) ==
    /\ i + 3 <= Len(html)
    /\ html[i] = "2"
    /\ html[i + 1] = "0"
    /\ html[i + 2] \in {"0", "1", "2", "3", "4"}
    /\ IsDigit(html[i + 3])

\* re.findall(r"(20[0-4]\d)", html) from position i: the scan goes left to
\* right and resumes after the end of each match.
RECURSIVE findallFrom(_, _)
findallFrom(html, i) ==
    IF i > Len(html) THEN <<>>
    ELSE IF MatchesAt(html, i)
         THEN <<SubSeq(html, i, i + 3)>> \o findallFrom(html, i + 4)
         ELSE findallFrom(html, i + 1)
findall(html) == findallFrom(html, 1)

extract_latest_year(html, min_year) ==
    LET found == findall(html)
        years == {int(found[k]) : k \in 1..Len(found)}
        kept  == {y \in years : y >= min_year}
    IN  IF kept # {} THEN Some(str(max(kept))) ELSE None

----------------------------------------------------------------------------
(* hash_page *)

\* The bytes html.encode("utf-8") gives one element of a page.
Utf8(c) ==
    CASE c = "0" -> <<48>> [] c = "1" -> <<49>> [] c = "2" -> <<50>>
      [] c = "3" -> <<51>> [] c = "4" -> <<52>> [] c = "5" -> <<53>>
      [] c = "6" -> <<54>> [] c = "7" -> <<55>> [] c = "8" -> <<56>>
      [] c = "9" -> <<57>> [] c = " " -> <<32>> [] c = "\n" -> <<10>>
      [] c = "R" -> <<82>> [] c = "T" -> <<84>> [] c = "x" -> <<120>>
      [] c = "U+0664" -> <<217, 164>>
      [] c = "<h1>" -> <<60, 104, 49, 62>>
      [] c = "</h1>" -> <<60, 47, 104, 49, 62>>
      [] c = "<b>" -> <<60, 98, 62>>
      [] c = "</b>" -> <<60, 47, 98, 62>>
      [] c = "<p>" -> <<60, 112, 62>>
      [] c = "</p>" -> <<60, 47, 112, 62>>

RECURSIVE encode(_)
encode(html) ==
    IF html = <<>> THEN <<>> ELSE Utf8(Head(html)) \o encode(Tail(html))

HexChar(d) ==
    CASE d < 10 -> DigitChar(d)
      [] d = 10 -> "a" [] d = 11 -> "b" [] d = 12 -> "c"
      [] d = 13 -> "d" [] d = 14 -> "e" [] d = 15 -> "f"

\* One 16-bit word of the digest, as 4 hexadecimal characters.
RECURSIVE Mix(_, _, _)
Mix(bytes, h, mult) ==
    IF bytes = <<>> THEN h
    ELSE Mix(Tail(bytes), (h * mult + Head(bytes)) % 65536, mult)
HexWord(w) ==
    <<HexChar(w \div 4096), HexChar((w \div 256) % 16),
      HexChar((w \div 16) % 16), HexChar(w % 16)>>

\* hashlib.sha256(bytes).hexdigest().  SHA-256 itself is outside the model:
\* it is replaced by a deterministic digest of three 16-bit words, written
\* as 12 lower-case hexadecimal characters (in place of 64).
sha256_hexdigest(bytes) ==
    HexWord(Mix(bytes, 5381, 33)) \o HexWord(Mix(bytes, 40503, 131))
        \o HexWord(Mix(bytes, 7919, 257))

\* The slice [:10].
HashLen == 10

hash_page(html) ==
    LET hex == sha256_hexdigest(encode(html))
    IN  SubSeq(hex, 1, IF Len(hex) < HashLen THEN Len(hex) ELSE HashLen)

----------------------------------------------------------------------------
(* extract_kaufman_title *)

OpenTags == {"<h1>", "<b>", "<p>"}
CloseTags == {"</h1>", "</b>", "</p>"}
TagName(t) ==
    CASE t \in {"<h1>", "</h1>"} -> "h1"
      [] t \in {"<b>", "</b>"} -> "b"
      [] t \in {"<p>", "</p>"} -> "p"

\* The tree builder's state while BeautifulSoup(html, "html.parser") reads
\* the page: the stack of open tags, the place of the first <h1> on it
\* (0: none seen yet, -1: seen and closed), the text nodes that became
\* descendants of the first <h1>, and the text collected since the last tag.
SoupInit == [stack |-> <<>>, h1 |-> 0, strings |-> <<>>, data |-> <<>>]

\* endData: the collected text becomes one text node of the innermost open
\* tag; a node of whitespace only is stored as "\n" or " ".
endData(st) ==
    LET node == IF \A k \in 1..Len(st.data) : st.data[k] \in Whitespace
                THEN (IF \E k \in 1..Len(st.data) : st.data[k] = "\n"
                      THEN <<"\n">> ELSE <<" ">>)
                ELSE st.data
    IN  IF st.data = <<>> THEN st
        ELSE IF st.h1 > 0
             THEN [st EXCEPT !.strings = Append(@, node), !.data = <<>>]
             ELSE [st EXCEPT !.data = <<>>]

handle_starttag(st, name) ==
    LET s == endData(st)
    IN  [s EXCEPT !.stack = Append(@, name),
                  !.h1 = IF name = "h1" /\ s.h1 = 0 THEN Len(s.stack) + 1 ELSE @]

\* _popToTag: the most recent open tag of that name is closed, with every
\* tag opened after it; an end tag that matches no open tag is dropped.
handle_endtag(st, name) ==
    LET s == endData(st)
        open == {j \in 1..Len(s.stack) : s.stack[j] = name}
    IN  IF open = {} THEN s
        ELSE LET j == max(open)
             IN  [s EXCEPT !.stack = SubSeq(@, 1, j - 1),
                           !.h1 = IF @ > 0 /\ j <= @ THEN -1 ELSE @]

handle_data(st, c) == [st EXCEPT !.data = Append(@, c)]

RECURSIVE feed(_, _, _)
feed(html, i, st) ==
    IF i > Len(html) THEN endData(st)
    ELSE IF html[i] \in OpenTags
         THEN feed(html, i + 1, handle_starttag(st, TagName(html[i])))
    ELSE IF html[i] \in CloseTags
         THEN feed(html, i + 1, handle_endtag(st, TagName(html[i])))
    ELSE feed(html, i + 1, handle_data(st, html[i]))

BeautifulSoup(html) == feed(html, 1, SoupInit)

\* h1.get_text(strip=True): every text node stripped, the empty ones
\* dropped, the rest joined with the default separator "".
RECURSIVE get_text_strip(_)
get_text_strip(strings) ==
    IF strings = <<>> THEN <<>>
    ELSE strip(Head(strings)) \o get_text_strip(Tail(strings))

extract_kaufman_title(html) ==
    LET soup == BeautifulSoup(html)
        text == join(<<" ">>, split(get_text_strip(soup.strings)))
    IN  IF soup.h1 = 0 THEN None
        ELSE IF text # <<>> THEN Some(text) ELSE None

----------------------------------------------------------------------------
(* get_version_for_source *)

DefaultMinYear == 2010

\* src.get(key, default)
Get(src, key, default) == IF key \in DOMAIN src THEN src[key] ELSE default

\* get_version_for_source with the final else branch answering as the
\* latest_year branch does when it finds nothing.
get_version_for_source_ElseSentinel(src, html) ==
    LET mode == Get(src, "mode", "hash")
    IN  IF mode = "latest_year"
        THEN LET year == extract_latest_year(html, Get(src, "min_year", DefaultMinYear))
             IN  IF Truthy(year) THEN year.val ELSE <<"unknown-year">>
        ELSE IF mode = "kaufman_title"
        THEN LET label == extract_kaufman_title(html)
             IN  IF Truthy(label) THEN label.val ELSE hash_page(html)
        ELSE IF mode = "hash"
        THEN hash_page(html)
        ELSE <<"unknown-year">>

\* get_version_for_source returning the label as it is, without `or hash_page(html)`.
get_version_for_source_NoFallback(src, html) ==
    LET mode == Get(src, "mode", "hash")
    IN  IF mode = "latest_year"
        THEN LET year == extract_latest_year(html, Get(src, "min_year", DefaultMinYear))
             IN  IF Truthy(year) THEN year.val ELSE <<"unknown-year">>
        ELSE IF mode = "kaufman_title"
        THEN extract_kaufman_title(html).val
        ELSE hash_page(html)

\* The version of src, given the html that fetch_html(src["url"]) returned.
get_version_for_source(src, html) ==
    LET mode == Get(src, "mode", "hash")
    IN  IF mode = "latest_year"
        THEN LET year == extract_latest_year(html, Get(src, "min_year", DefaultMinYear))
             IN  IF Truthy(year) THEN year.val ELSE <<"unknown-year">>
        ELSE IF mode = "kaufman_title"
        THEN LET label == extract_kaufman_title(html)
             IN  IF Truthy(label) THEN label.val ELSE hash_page(html)
        ELSE IF mode = "hash"
        THEN hash_page(html)
        ELSE hash_page(html)

----------------------------------------------------------------------------
(* The environment: the registry, the web, the mail configuration *)

\* Source descriptors a registry is made of, in their order.  The first
\* three are entries of SOURCES (names and urls shortened); the last two
\* have an unrecognized mode and no mode field.
SourcePool ==
    << [id |-> "trilliant_trends", name |-> "Trilliant", url |-> "trillianthealth.com/trends",
        mode |-> "hash"],
       [id |-> "cms_nhe", name |-> "CMS NHE", url |-> "cms.gov/nhe",
        mode |-> "latest_year", min_year |-> 2015],
       [id |-> "kaufman_flash", name |-> "Kaufman Hall", url |-> "kaufmanhall.com/flash",
        mode |-> "kaufman_title"],
       [id |-> "feed_x", name |-> "Feed X", url |-> "x.org/feed", mode |-> "rss"],
       [id |-> "bare", name |-> "Bare", url |-> "bare.org/report"] >>

\* The entries of SourcePool at the places in S, in order.
Pick(S) ==
    LET In(i) == i \in S
        at == SelectSeq([i \in 1..Len(SourcePool) |-> i], In)
    IN  [k \in 1..Len(at) |-> SourcePool[at[k]]]

\* Registries: at most MaxSources descriptors, ids distinct.
Registries ==
    {Pick(S) : S \in {T \in SUBSET (1..Len(SourcePool)) : Cardinality(T) <= MaxSources}}

\* A latest_year source and a kaufman_title source, each the only entry of
\* its registry, whose pages range over every short page.
YearRegistries ==
    {<<[id |-> "y", name |-> "Y", url |-> "year.test", mode |-> "latest_year"]>>}
      \cup {<<[id |-> "y", name |-> "Y", url |-> "year.test",
               mode |-> "latest_year", min_year |-> m]>> : m \in {2015, 2025}}
TitleRegistries ==
    {<<[id |-> "k", name |-> "K", url |-> "title.test", mode |-> "kaufman_title"]>>}

YearAlphabet == {"2", "0", "4", "9", "x", "U+0664"}
TitleAlphabet == {"<h1>", "</h1>", "<b>", "</b>", " ", "\n", "R", "T"}

\* The pages url may serve when the fetch succeeds.
Web(url) ==
    CASE url = "cms.gov/nhe" ->
           { <<>>, <<"x">>,
             <<"2", "0", "1", "4">>,
             <<"2", "0", "5", "0", " ", "2", "0", "0", "9">>,
             <<"2", "0", "2", "3">>,
             <<"2", "0", "2", "U+0664">>,
             <<"2", "0", "2", "4", " ", "x", " ", "2", "0", "1", "9">> }
      [] url = "kaufmanhall.com/flash" ->
           SeqsUpTo({"<h1>", "</h1>", " ", "T"}, MaxPageLen)
             \cup { <<"<p>", "x", "</p>">>,
                    <<"<h1>", " ", "</h1>">>,
                    <<"<h1>", " ", " ", "R", " ", " ", " ", "T", "\n",
                      "2", "0", "2", "5", " ", "</h1>">> }
      [] url \in {"trillianthealth.com/trends", "x.org/feed", "bare.org/report"} ->
           { <<"x">>, <<"<h1>", "T", "</h1>", "2", "0", "2", "4">> }
      [] url = "year.test" -> SeqsUpTo(YearAlphabet, MaxYearLen)
      [] url = "title.test" -> SeqsUpTo(TitleAlphabet, MaxTitleLen)

\* The messages of the exceptions fetch_html raises.
FetchErrors == {"404 Client Error", "Read timed out"}

----------------------------------------------------------------------------
(* run *)

VARIABLES
    SOURCES,     \* the registry
    configured,  \* SMTP_USER and SMTP_PASS and EMAIL_FROM and EMAIL_TO
    pc,          \* "running"; "done": run returned; "raised": an exception left run
    idx,         \* sources the for loop has finished with
    lines,       \* run's success list
    errors,      \* run's error list
    stdout,      \* what print wrote, one entry per call
    fetched,     \* history: the get_version_for_source calls and how each ended
    outbox       \* history: the send_email calls and how each ended

vars == <<SOURCES, configured, pc, idx, lines, errors, stdout, fetched, outbox>>

SubjectFailed == <<"Healthcare report watcher: ALL CHECKS FAILED">>
SubjectSnapshot == <<"Healthcare report watcher: latest snapshot">>

\* f"- {name}: {version}  ({url})"
FormatLine(src, version) ==
    <<"- ", src.name, ": ">> \o version \o <<"  (", src.url, ")">>
\* f"[OK] {sid}: {version}"
FormatOk(src, version) == <<"[OK] ", src.id, ": ">> \o version
\* f"[ERROR] {sid}: {e}"
FormatError(src, e) == <<"[ERROR] ", src.id, ": ", e>>

FailedBody(errs) ==
    <<"All sources failed to fetch:", "\n", "\n">> \o join(<<"\n">>, errs)

\* SnapshotBody with the "Errors" section appended without the `if errors` test.
SnapshotBody_AlwaysErrors(lns, errs) ==
    <<"Here is the latest snapshot of monitored healthcare reports:", "\n", "\n">>
        \o join(<<"\n">>, lns)
        \o <<"\n", "\n", "Errors:", "\n">> \o join(<<"\n">>, errs)

SnapshotBody(lns, errs) ==
    LET body == <<"Here is the latest snapshot of monitored healthcare reports:",
                  "\n", "\n">> \o join(<<"\n">>, lns)
    IN  IF errs # <<>>
        THEN body \o <<"\n", "\n", "Errors:", "\n">> \o join(<<"\n">>, errs)
        ELSE body

InitRun(registries) ==
    /\ SOURCES \in registries
    /\ configured \in BOOLEAN
    /\ pc = "running"
    /\ idx = 0
    /\ lines = <<>>
    /\ errors = <<>>
    /\ stdout = <<>>
    /\ fetched = <<>>
    /\ outbox = <<>>

Init == InitRun(Registries)

\* One iteration of the for loop whose try block completes.
SourceOk ==
    /\ pc = "running"
    /\ idx < Len(SOURCES)
    /\ LET src == SOURCES[idx + 1]
       IN  \E html \in Web(src.url) :
             LET version == get_version_for_source(src, html)
             IN  /\ lines' = Append(lines, FormatLine(src, version))
                 /\ stdout' = Append(stdout, FormatOk(src, version))
                 /\ fetched' = Append(fetched,
                        [sid |-> src.id, ok |-> TRUE, html |-> html,
                         version |-> version, err |-> ""])
    /\ idx' = idx + 1
    /\ UNCHANGED <<SOURCES, configured, pc, errors, outbox>>

\* SourceRaises leaving the loop (`break`) after it recorded the error.
SourceRaises_Breaks ==
    /\ pc = "running"
    /\ idx < Len(SOURCES)
    /\ LET src == SOURCES[idx + 1]
       IN  \E e \in FetchErrors :
             LET msg == FormatError(src, e)
             IN  /\ stdout' = Append(stdout, msg)
                 /\ errors' = Append(errors, msg)
                 /\ fetched' = Append(fetched,
                        [sid |-> src.id, ok |-> FALSE, html |-> <<>>,
                         version |-> <<>>, err |-> e])
    /\ idx' = Len(SOURCES)
    /\ UNCHANGED <<SOURCES, configured, pc, lines, outbox>>

\* One iteration of the for loop whose try block raises an Exception.
SourceRaises ==
    /\ pc = "running"
    /\ idx < Len(SOURCES)
    /\ LET src == SOURCES[idx + 1]
       IN  \E e \in FetchErrors :
             LET msg == FormatError(src, e)
             IN  /\ stdout' = Append(stdout, msg)
                 /\ errors' = Append(errors, msg)
                 /\ fetched' = Append(fetched,
                        [sid |-> src.id, ok |-> FALSE, html |-> <<>>,
                         version |-> <<>>, err |-> e])
    /\ idx' = idx + 1
    /\ UNCHANGED <<SOURCES, configured, pc, lines, outbox>>

\* send_email with the SMTP session's exception caught and dropped.
send_email_Swallows(subject, body) ==
    \/ /\ ~configured
       /\ stdout' = stdout \o
            << <<"Email settings not fully configured. Here's what would be sent:">>,
               <<"SUBJECT:", " ">> \o subject,
               body >>
       /\ outbox' = Append(outbox, [subject |-> subject, body |-> body, end |-> "printed"])
       /\ pc' = "done"
    \/ /\ configured
       /\ stdout' = stdout
       /\ \E end \in {"delivered", "raised"} :
            outbox' = Append(outbox, [subject |-> subject, body |-> body, end |-> end])
       /\ pc' = "done"

\* send_email(subject, body), called by run as its last statement before it
\* returns: without configuration the message is printed; with it the SMTP
\* session delivers the message or raises.  Nothing around the call catches.
send_email(subject, body) ==
    \/ /\ ~configured
       /\ stdout' = stdout \o
            << <<"Email settings not fully configured. Here's what would be sent:">>,
               <<"SUBJECT:", " ">> \o subject,
               body >>
       /\ outbox' = Append(outbox, [subject |-> subject, body |-> body, end |-> "printed"])
       /\ pc' = "done"
    \/ /\ configured
       /\ stdout' = stdout
       /\ outbox' = Append(outbox, [subject |-> subject, body |-> body, end |-> "delivered"])
       /\ pc' = "done"
    \/ /\ configured
       /\ stdout' = stdout
       /\ outbox' = Append(outbox, [subject |-> subject, body |-> body, end |-> "raised"])
       /\ pc' = "raised"

\* NotifyAllFailed without its `return`: run goes on to the snapshot email.
NotifyAllFailed_NoReturn ==
    /\ pc = "running"
    /\ idx = Len(SOURCES)
    /\ lines = <<>> /\ errors # <<>>
    /\ LET end == IF configured THEN "delivered" ELSE "printed"
       IN  outbox' = outbox \o
             << [subject |-> SubjectFailed, body |-> FailedBody(errors), end |-> end],
                [subject |-> SubjectSnapshot, body |-> SnapshotBody(lines, errors),
                 end |-> end] >>
    /\ pc' = "done"
    /\ UNCHANGED <<SOURCES, configured, idx, lines, errors, fetched, stdout>>

\* After the loop: `if not lines and errors`.
NotifyAllFailed ==
    /\ pc = "running"
    /\ idx = Len(SOURCES)
    /\ lines = <<>> /\ errors # <<>>
    /\ send_email(SubjectFailed, FailedBody(errors))
    /\ UNCHANGED <<SOURCES, configured, idx, lines, errors, fetched>>

\* NotifySnapshot reached whatever the lists hold.
NotifySnapshot_Unguarded ==
    /\ pc = "running"
    /\ idx = Len(SOURCES)
    /\ send_email(SubjectSnapshot, SnapshotBody(lines, errors))
    /\ UNCHANGED <<SOURCES, configured, idx, lines, errors, fetched>>

\* After the loop, otherwise.
NotifySnapshot ==
    /\ pc = "running"
    /\ idx = Len(SOURCES)
    /\ ~(lines = <<>> /\ errors # <<>>)
    /\ send_email(SubjectSnapshot, SnapshotBody(lines, errors))
    /\ UNCHANGED <<SOURCES, configured, idx, lines, errors, fetched>>

Next == SourceOk \/ SourceRaises \/ NotifyAllFailed \/ NotifySnapshot

Spec == Init /\ [][Next]_vars

\* The latest_year strategy alone, and the kaufman_title strategy alone.
InitYear == InitRun(YearRegistries)
SpecYear == InitYear /\ [][Next]_vars
InitTitle == InitRun(TitleRegistries)
SpecTitle == InitTitle /\ [][Next]_vars

----------------------------------------------------------------------------
(* Properties *)

Range(q) == {q[k] : k \in 1..Len(q)}

\* sub occurs in text as a contiguous substring.
Occurs(sub, text) ==
    \E i \in 1..(Len(text) - Len(sub) + 1) : SubSeq(text, i, i + Len(sub) - 1) = sub

\* The lines of a text: its pieces between "\n" characters.
RECURSIVE LinesFrom(_, _, _)
LinesFrom(text, i, line) ==
    IF i > Len(text) THEN <<line>>
    ELSE IF text[i] = "\n" THEN <<line>> \o LinesFrom(text, i + 1, <<>>)
    ELSE LinesFrom(text, i + 1, Append(line, text[i]))
LinesOf(text) == LinesFrom(text, 1, <<>>)

\* The places of the registry whose attempt succeeded / raised, in order.
OkPlaces ==
    LET Ok(i) == fetched[i].ok
    IN  SelectSeq([i \in 1..Len(fetched) |-> i], Ok)
FailedPlaces ==
    LET Failed(i) == ~fetched[i].ok
    IN  SelectSeq([i \in 1..Len(fetched) |-> i], Failed)

\* The success line and the error line the spec gives the source at place i.
LineOf(i) ==
    <<"- ", SOURCES[i].name, ": ">> \o fetched[i].version \o <<"  (", SOURCES[i].url, ")">>
ErrorOf(i) == <<"[ERROR] ", SOURCES[i].id, ": ", fetched[i].err>>

\* The source at place i is in the success list and not in the error list.
CountedAsSuccess(i) ==
    /\ fetched[i].ok
    /\ \E k \in 1..Len(OkPlaces) : OkPlaces[k] = i /\ lines[k] = LineOf(i)
    /\ \A k \in 1..Len(errors) : errors[k][2] # SOURCES[i].id

\* C1: one call of run() invokes send_email exactly once, whatever the
\* registry and the per-source outcomes: no call while the loop runs, the run
\* can always go on until the call, one call once run has ended, and that
\* call is the all-failed variant or the snapshot variant.
C1_ExactlyOneNotification ==
    /\ Len(outbox) <= 1
    /\ pc = "running" => outbox = <<>> /\ ENABLED Next
    /\ pc # "running" =>
         /\ Len(outbox) = 1
         /\ outbox[1].subject \in {SubjectFailed, SubjectSnapshot}

\* A run over three sources, the middle one failing, has ended with its one call.
C1_Witness ==
    /\ pc = "done"
    /\ Len(SOURCES) = 3
    /\ fetched[1].ok /\ ~fetched[2].ok /\ fetched[3].ok
    /\ Len(outbox) = 1

\* C2: a source's failure never aborts the run: at the notification step
\* every source has been attempted exactly once, in registry order; the
\* success list is the formatted lines of the sources that succeeded, in
\* registry order; the error list is the "[ERROR] {id}: ..." lines of the
\* sources that raised, in registry order.
C2_FailureIsolated ==
    /\ Len(fetched) = idx
    /\ idx <= Len(SOURCES)
    /\ (idx = Len(SOURCES) \/ pc # "running") =>
         /\ Len(fetched) = Len(SOURCES)
         /\ \A i \in 1..Len(SOURCES) : fetched[i].sid = SOURCES[i].id
         /\ lines = [k \in 1..Len(OkPlaces) |-> LineOf(OkPlaces[k])]
         /\ errors = [k \in 1..Len(FailedPlaces) |-> ErrorOf(FailedPlaces[k])]
         /\ Len(lines) + Len(errors) = Len(SOURCES)

\* A ok, B raises, C ok: two success lines and one error line naming B.
C2_Witness ==
    /\ idx = 3 /\ Len(SOURCES) = 3
    /\ fetched[1].ok /\ ~fetched[2].ok /\ fetched[3].ok
    /\ Len(lines) = 2 /\ Len(errors) = 1
    /\ errors[1][2] = SOURCES[2].id

\* C3: the notification is the "ALL CHECKS FAILED" variant if and only if
\* the success list is empty and the error list is not; its body then lists
\* every accumulated error and no snapshot notification is sent.  In every
\* other case the subject is the "latest snapshot" variant.
C3_FailedVariantIff ==
    \A k \in 1..Len(outbox) :
        /\ outbox[k].subject = SubjectFailed <=> (lines = <<>> /\ errors # <<>>)
        /\ outbox[k].subject = SubjectFailed =>
             /\ \A e \in 1..Len(errors) : errors[e] \in Range(LinesOf(outbox[k].body))
             /\ \A j \in 1..Len(outbox) : outbox[j].subject # SubjectSnapshot
        /\ outbox[k].subject # SubjectFailed => outbox[k].subject = SubjectSnapshot

\* Every source of a two-source registry failed and the failure email went out.
C3_Witness ==
    /\ Len(outbox) = 1
    /\ outbox[1].subject = SubjectFailed
    /\ Len(errors) = 2 /\ lines = <<>>

\* The 4-character substrings of html, at every position, that read
\* 20[0-4][0-9] in ASCII digits, as numbers.
AsciiYears(html) ==
    {int(SubSeq(html, i, i + 3)) : i \in
        {j \in 1..(Len(html) - 3) :
            /\ html[j] = "2" /\ html[j + 1] = "0"
            /\ html[j + 2] \in {"0", "1", "2", "3", "4"}
            /\ html[j + 3] \in AsciiDigits}}

MinYearOf(src) == IF "min_year" \in DOMAIN src THEN src.min_year ELSE 2010

IsLatestYear(i) == "mode" \in DOMAIN SOURCES[i] /\ SOURCES[i].mode = "latest_year"
IsKaufmanTitle(i) == "mode" \in DOMAIN SOURCES[i] /\ SOURCES[i].mode = "kaufman_title"

\* C4: latest_year returns the decimal string of the maximum over all the
\* 4-character substrings of the content, at every position (overlapping
\* ones included), that match 20[0-4][0-9] and are >= min_year, and
\* "unknown-year" exactly when there is none.  Stated for the pages that hold
\* ASCII characters only.
C4_MaxOverAllSubstrings ==
    \A i \in 1..Len(fetched) :
        (fetched[i].ok /\ IsLatestYear(i)
           /\ \A c \in Range(fetched[i].html) : c \notin UnicodeDigits) =>
            LET kept == {y \in AsciiYears(fetched[i].html) : y >= MinYearOf(SOURCES[i])}
            IN  fetched[i].version =
                    IF kept = {} THEN <<"unknown-year">> ELSE str(max(kept))

\* C5: extract_latest_year returns the sentinel, or a year y with
\* min_year <= y and 2000 <= y <= 2049 whose 4-digit decimal form is a
\* substring of the content.
C5_YearAppearsInContent ==
    \A i \in 1..Len(fetched) :
        (fetched[i].ok /\ IsLatestYear(i)) =>
            \/ fetched[i].version = <<"unknown-year">>
            \/ /\ Len(fetched[i].version) = 4
               /\ \A c \in Range(fetched[i].version) : c \in AsciiDigits
               /\ int(fetched[i].version) >= MinYearOf(SOURCES[i])
               /\ int(fetched[i].version) \in 2000..2049
               /\ Occurs(fetched[i].version, fetched[i].html)

\* C6: a source whose fetch succeeds and whose mode is none of latest_year,
\* hash, kaufman_title, or is absent, gets the hash strategy's output for the
\* fetched content, lands in the success list and not in the error list.
C6_UnknownModeHashes ==
    \A i \in 1..Len(fetched) :
        (/\ fetched[i].ok
         /\ \/ "mode" \notin DOMAIN SOURCES[i]
            \/ SOURCES[i].mode \notin {"latest_year", "hash", "kaufman_title"}) =>
            /\ fetched[i].version = hash_page(fetched[i].html)
            /\ CountedAsSuccess(i)

\* A source of unrecognized mode and a source without mode were both fetched.
C6_Witness ==
    \E i, j \in 1..Len(fetched) :
        /\ fetched[i].ok /\ fetched[j].ok
        /\ "mode" \notin DOMAIN SOURCES[i]
        /\ "mode" \in DOMAIN SOURCES[j] /\ SOURCES[j].mode = "rss"
        /\ pc = "done"

\* The page has no 4-character substring, at any position, that reads as a
\* year 2000-2049 of at least min_year (the last digit in any decimal digits).
NoYearAtLeast(html, min_year) ==
    \A j \in 1..(Len(html) - 3) :
        ~ /\ html[j] = "2" /\ html[j + 1] = "0"
          /\ html[j + 2] \in {"0", "1", "2", "3", "4"}
          /\ IsDigit(html[j + 3])
          /\ 2000 + 10 * DigitValue(html[j + 2]) + DigitValue(html[j + 3]) >= min_year

\* The page has no <h1>, or every character inside its first <h1> is whitespace.
NoHeadingText(html) ==
    \/ "<h1>" \notin Range(html)
    \/ \A n \in Range(BeautifulSoup(html).strings) : \A c \in Range(n) : c \in Whitespace

C8_DeliveryFailurePropagates ==
    \A k \in 1..Len(outbox) :
        outbox[k].end = "raised" =>
            /\ pc = "raised"
            /\ Len(outbox) = 1
            /\ ~ ENABLED Next
            /\ Len(errors) = Len(FailedPlaces)

\* Delivery of a snapshot that carries an Errors section failed.
C8_Witness ==
    /\ pc = "raised"
    /\ Len(outbox) = 1 /\ outbox[1].end = "raised"
    /\ outbox[1].subject = SubjectSnapshot
    /\ errors # <<>>

\* The text content of the first <h1>: its text nodes, nested ones
\* included, concatenated with their whitespace kept.
RECURSIVE Concat(_)
Concat(strings) ==
    IF strings = <<>> THEN <<>> ELSE Head(strings) \o Concat(Tail(strings))
HeadingText(html) == Concat(BeautifulSoup(html).strings)

\* C9: for a page whose first <h1> has non-empty text, kaufman_title
\* returns that text content with every whitespace run collapsed to one
\* space and the ends trimmed, so words apart only by whitespace at a
\* text-node boundary stay apart by one space.
C9_TitleIsCollapsedText ==
    \A i \in 1..Len(fetched) :
        (/\ fetched[i].ok /\ IsKaufmanTitle(i)
         /\ "<h1>" \in Range(fetched[i].html)
         /\ split(HeadingText(fetched[i].html)) # <<>>) =>
            fetched[i].version = join(<<" ">>, split(HeadingText(fetched[i].html)))

\* C10: the snapshot body holds every success line, one per successful
\* source in registry order, each "- {name}: {version}  ({url})"; an
\* "Errors" section listing every error line follows all of them if and only
\* if the error list is non-empty.
C10_SnapshotBody ==
    \A k \in 1..Len(outbox) :
        outbox[k].subject = SubjectSnapshot =>
            LET body == LinesOf(outbox[k].body)
                n == Len(OkPlaces)
            IN  /\ Len(body) >= 2 + n
                /\ \A j \in 1..n : body[2 + j] = LineOf(OkPlaces[j])
                /\ errors = <<>> =>
                     /\ <<"Errors:">> \notin Range(body)
                     /\ \A j \in (2 + n + 1)..Len(body) : body[j] = <<>>
                /\ errors # <<>> =>
                     /\ Len(body) = 2 + n + 2 + Len(errors)
                     /\ body[2 + n + 1] = <<>>
                     /\ body[2 + n + 2] = <<"Errors:">>
                     /\ \A j \in 1..Len(errors) :
                          body[2 + n + 2 + j] = ErrorOf(FailedPlaces[j])

\* A snapshot with two success lines and an Errors section was sent.
C10_Witness ==
    /\ Len(outbox) = 1
    /\ outbox[1].subject = SubjectSnapshot
    /\ Len(lines) = 2 /\ Len(errors) = 1

====
